---- MODULE Spec2Model ----
(***************************************************************************)
(* A model of resolve.py: the iterative DNS resolver built on dnspython.    *)
(* main, collect_results, lookup and lookup_iter are modelled as a stack    *)
(* machine (one frame per Python call, one action per step of a function);  *)
(* dns.query.udp is modelled by Query, which answers from a small fixed     *)
(* name space whose failures and referral shapes are chosen in Init.        *)
(***************************************************************************)
EXTENDS Naturals, Sequences, FiniteSets, TLC

VARIABLES
    net,       \* what is left open about the network the process runs against
    args,      \* program_args.name, as far as main's loop has read it
    argi,      \* main's position in args
    dict_obj,  \* the my_dictionary cache of main
    stack,     \* the Python call stack below main, innermost frame last
    ret,       \* the value returned by the call that returned last
    status,    \* "run", "done", or "crash" (an uncaught exception ended main)
    exc,       \* the uncaught exception, "" while there is none
    out,       \* what print_results was given, one entry per name handled
    qlog,      \* the queries sent since collect_results last called lookup,
               \* each with what it got and the loop it was sent from
    nq         \* the number of queries sent since the process began

vars == <<net, args, argi, dict_obj, stack, ret, status, exc, out, qlog, nq>>

----------------------------------------------------------------------------
(* Record types, with the numbers dnspython gives them.                     *)

A == 1
NS == 2
CNAME == 5
SOA == 6
MX == 15
AAAA == 28
DS == 43

ROOT_SERVERS ==
    << "198.41.0.4", "199.9.14.201", "192.33.4.12", "199.7.91.13",
       "192.203.230.10", "192.5.5.241", "192.112.36.4", "198.97.190.53",
       "192.36.148.17", "192.58.128.30", "193.0.14.129", "199.7.83.42",
       "202.12.27.33" >>

NumRoots == Len(ROOT_SERVERS)

----------------------------------------------------------------------------
(* Bounds of the model.                                                     *)

\* the longest command line: main handles at most MaxNames names
MaxNames == 2
\* at most MaxBad of the servers below the root fail in one run
MaxBad == 2
\* how often the Result Collector is called for a name when called directly
Repeats == 2
\* the depth of the call stack at which the interpreter refuses a further
\* call (sys.getrecursionlimit(), 1000 unless changed)
RecursionLimit == 5

----------------------------------------------------------------------------
(* Messages.  An rdata is [rdtype, v, pref]; an RRset is [name, rdtype,     *)
(* items]; a Message has the three sections the resolver reads.             *)

Rd(t, v) == [rdtype |-> t, v |-> v, pref |-> 0]
RdMX(p, v) == [rdtype |-> MX, v |-> v, pref |-> p]
RRset(n, t, items) == [name |-> n, rdtype |-> t, items |-> items]
Msg(an, au, ad) == [answer |-> an, authority |-> au, additional |-> ad]

\* dns.message.Message(): a message with nothing in it
EmptyMessage == Msg(<<>>, <<>>, <<>>)

\* dns.name.from_text: the absolute name a text stands for
FromText(t) == t.n
\* str(rdata) / str(name): the text of an absolute name ends with a dot
ToText(n) == [n |-> n, dot |-> TRUE]

----------------------------------------------------------------------------
(* The name space the network serves.                                       *)

WWW == "www.ex."
ALIAS == "alias.ex."
NXNAME == "nx.ex."
LOOPA == "a.ex."
LOOPB == "b.ex."
ZONE == "ex."
NSZONE == "nsz."
NS1 == "ns1.nsz."
NS2 == "ns2.nsz."
NS3 == "ns3.nsz."
NSL == "lame.nsz."
NST == "a.tld-servers."
NSN == "ns.nsz."

T1 == "10.0.0.1"
A1 == "10.0.1.1"
A2 == "10.0.1.2"
A3 == "10.0.1.3"
N1 == "10.0.2.1"
L1 == "10.0.3.1"
WWWADDR == "192.0.2.80"
WWWADDR6 == "2001:db8::80"
A1ADDR6 == "2001:db8::1"
MAILHOST == "mail.ex."

\* two names that are aliases of each other
CycleNames == {LOOPA, LOOPB}
ExNames == {WWW, ALIAS, NXNAME} \cup CycleNames
NsNames == {NS1, NS2, NS3, NSL}
AuthServers == {A1, A2, A3}
\* the servers below the root that a run may make fail
Fallible == {A1, A2, A3, N1}

NsAddr(n) ==
    CASE n = NS1 -> A1
      [] n = NS2 -> A2
      [] n = NS3 -> A3
      [] OTHER -> L1

FailModes == {"silent", "servfail"}
GlueShapes == {"a", "aaaa_a", "aaaa", "none"}
NegShapes == {"soa", "ns_soa", "nxdomain"}
RootsDownChoices == {0, 1, NumRoots}

(* A network is a record of what is left open about it: for every trait,  *)
(* the set of values it may still have.  A query settles the traits its   *)
(* outcome depends on, and every later query meets the same network.      *)
(*   rootsDown  the first rootsDown root servers fail every query         *)
(*   health     whether a server below the root fails every query         *)
(*   failMode   how a failing server fails: "silent", no response that    *)
(*              dnspython accepts (the query raises Timeout, or another   *)
(*              DNSException for a malformed response), or "servfail", a  *)
(*              response with the code SERVFAIL                           *)
(*   tldGlue    the additional section of the referral to ex.             *)
(*   negShape   the negative response of ex. for nx.ex.                   *)
AnyNetwork ==
    [rootsDown |-> RootsDownChoices,
     health |-> [s \in Fallible |-> {"up", "down"}],
     failMode |-> FailModes, tldGlue |-> GlueShapes, negShape |-> NegShapes]

The(S) == CHOOSE x \in S : TRUE
Settled(S) == Cardinality(S) = 1

RootIndex(server) == CHOOSE i \in 1..NumRoots : ROOT_SERVERS[i] = server
IsRoot(server) == \E i \in 1..NumRoots : ROOT_SERVERS[i] = server

Down(n) == {s \in Fallible : n.health[s] = {"down"}}

\* the networks that n may be, with "server fails" settled as b
WithHealth(n, server, b) ==
    IF IsRoot(server)
    THEN LET left == {k \in n.rootsDown : (RootIndex(server) <= k) = b}
         IN IF left = {} THEN {} ELSE {[n EXCEPT !.rootsDown = left]}
    ELSE IF server \in Fallible
    THEN LET h == IF b THEN "down" ELSE "up"
         IN IF h \in n.health[server]
               /\ (b => Cardinality(Down(n) \ {server}) < MaxBad)
            THEN {[n EXCEPT !.health[server] = {h}]}
            ELSE {}
    ELSE IF b THEN {} ELSE {n}

\* the networks that n may be, with everything settled that the outcome of
\* the query (server, name, qtype) depends on
Narrow(n, server, name, qtype) ==
    UNION { { [m EXCEPT !.failMode = {f}] : f \in m.failMode }
            : m \in WithHealth(n, server, TRUE) }
    \cup
    UNION { { [m EXCEPT !.tldGlue = g, !.negShape = s]
              : g \in IF server = T1 /\ name \in ExNames
                      THEN {{x} : x \in m.tldGlue} ELSE {m.tldGlue},
                s \in IF server \in AuthServers /\ name = NXNAME
                      THEN {{x} : x \in m.negShape} ELSE {m.negShape} }
            : m \in WithHealth(n, server, FALSE) }

\* whether the server fails every query, in a network where that is settled
Failing(n, server) ==
    IF IsRoot(server) THEN \A k \in n.rootsDown : RootIndex(server) <= k
    ELSE server \in Down(n)

SoaSet == RRset(ZONE, SOA, << Rd(SOA, "ns1.nsz. admin.ex. 1") >>)
ExNsSet == RRset(ZONE, NS, << Rd(NS, NS1), Rd(NS, NS2), Rd(NS, NS3) >>)
ExDsSet == RRset(ZONE, DS, << Rd(DS, "12345 8 2 49fd46e6") >>)
GlueA == << RRset(NS1, A, << Rd(A, A1) >>), RRset(NS2, A, << Rd(A, A2) >>),
            RRset(NS3, A, << Rd(A, A3) >>) >>
GlueAAAA == << RRset(NS1, AAAA, << Rd(AAAA, A1ADDR6) >>) >>

\* a root server refers every name to the TLD server, with its address
RootData(name, qtype) ==
    Msg(<<>>, << RRset("tld.", NS, << Rd(NS, NST) >>) >>,
        << RRset(NST, A, << Rd(A, T1) >>) >>)

\* the TLD server delegates ex. (in the shape of this network) and nsz.
TldData(n, name, qtype) ==
    IF name \in ExNames
    THEN Msg(<<>>, << ExNsSet, ExDsSet >>,
             CASE The(n.tldGlue) = "a" -> GlueA
               [] The(n.tldGlue) = "aaaa_a" -> GlueAAAA \o GlueA
               [] The(n.tldGlue) = "aaaa" -> GlueAAAA
               [] OTHER -> <<>>)
    ELSE IF name \in NsNames
    THEN Msg(<<>>, << RRset(NSZONE, NS, << Rd(NS, NSN) >>) >>,
             << RRset(NSN, A, << Rd(A, N1) >>) >>)
    ELSE EmptyMessage

\* the server of nsz. holds the addresses of the nameserver names
NsZoneData(name, qtype) ==
    IF name \in NsNames /\ qtype = A
    THEN Msg(<< RRset(name, A, << Rd(A, NsAddr(name)) >>) >>, <<>>, <<>>)
    ELSE IF name \in NsNames
    THEN Msg(<<>>, << RRset(NSZONE, SOA, << Rd(SOA, "ns.nsz. admin.nsz. 1") >>) >>, <<>>)
    ELSE EmptyMessage

\* the negative response of ex. for nx.ex., in the shape of this network
Negative(n) ==
    CASE The(n.negShape) = "ns_soa" ->
             Msg(<<>>, << RRset(ZONE, NS, << Rd(NS, NSL) >>), SoaSet >>, <<>>)
      [] OTHER -> Msg(<<>>, << SoaSet >>, <<>>)

\* the three servers of ex. hold the same zone
AuthData(n, name, qtype) ==
    CASE name = WWW /\ qtype = A ->
             Msg(<< RRset(WWW, A, << Rd(A, WWWADDR) >>) >>, <<>>, <<>>)
      [] name = WWW /\ qtype = AAAA ->
             Msg(<< RRset(WWW, AAAA, << Rd(AAAA, WWWADDR6) >>) >>, <<>>, <<>>)
      [] name = WWW /\ qtype = MX ->
             Msg(<< RRset(WWW, MX, << RdMX(10, MAILHOST) >>) >>, <<>>, <<>>)
      [] name = WWW -> Msg(<<>>, << SoaSet >>, <<>>)
      [] name = ALIAS ->
             Msg(<< RRset(ALIAS, CNAME, << Rd(CNAME, WWW) >>) >>, <<>>, <<>>)
      [] name = LOOPA ->
             Msg(<< RRset(LOOPA, CNAME, << Rd(CNAME, LOOPB) >>) >>, <<>>, <<>>)
      [] name = LOOPB ->
             Msg(<< RRset(LOOPB, CNAME, << Rd(CNAME, LOOPA) >>) >>, <<>>, <<>>)
      [] name = NXNAME -> Negative(n)
      [] OTHER -> EmptyMessage

\* the response code of a server that does not fail
Rcode(n, server, name, qtype) ==
    IF server \in AuthServers /\ name = NXNAME /\ The(n.negShape) = "nxdomain"
    THEN "NXDOMAIN" ELSE "NOERROR"

ZoneData(n, server, name, qtype) ==
    CASE IsRoot(server) -> RootData(name, qtype)
      [] server = T1 -> TldData(n, name, qtype)
      [] server = N1 -> NsZoneData(name, qtype)
      [] server \in AuthServers -> AuthData(n, name, qtype)
      [] OTHER -> EmptyMessage

\* dns.query.udp(query, server, 3): what one query to one server gives, in
\* a network n of Narrow(net, server, name, qtype)
Query(n, server, name, qtype) ==
    IF Failing(n, server)
    THEN IF The(n.failMode) = "silent"
         THEN [kind |-> "DNSException"]
         ELSE [kind |-> "response", rcode |-> "SERVFAIL", msg |-> EmptyMessage]
    ELSE [kind |-> "response", rcode |-> Rcode(n, server, name, qtype),
          msg |-> ZoneData(n, server, name, qtype)]

----------------------------------------------------------------------------
(* The inputs of a run.                                                     *)

\* the names a command line may hold, as typed: "www.ex" stands for www.ex.
Texts == { [n |-> WWW, dot |-> FALSE], [n |-> ALIAS, dot |-> TRUE],
           [n |-> NXNAME, dot |-> TRUE] }

----------------------------------------------------------------------------
(* The call stack.                                                          *)

Top == stack[Len(stack)]
Rest == SubSeq(stack, 1, Len(stack) - 1)
At(fn, pc) == status = "run" /\ Top.fn = fn /\ Top.pc = pc

\* the running function moves on to frame f
Goto(f) == stack' = Rest \o << f >>
\* the running function, left in frame f, calls the function of frame g
Call(f, g) == stack' = Rest \o << f, g >>
\* the running function returns v to its caller
Return(v) == stack' = Rest /\ ret' = v
\* an exception no handler of the program catches ends the process
Raise(e) == status' = "crash" /\ exc' = e

MainFrame(pc) == [fn |-> "main", pc |-> pc]

CollectFrame(name) ==
    [fn |-> "collect_results", pc |-> "call", name |-> name,
     target_name |-> FromText(name), k |-> 1,
     cnames |-> <<>>, arecords |-> <<>>, aaaarecords |-> <<>>,
     mxrecords |-> <<>>]

\* the found flag lookup starts with
LookupInitFound == FALSE

\* a frame of lookup; at tells the calls of lookup apart: the number of
\* queries of qlog sent before the call
LookupFrame(target_name, qtype, at) ==
    [fn |-> "lookup", pc |-> "loop", target_name |-> target_name,
     qtype |-> qtype, found |-> LookupInitFound, i |-> 1,
     response |-> EmptyMessage, at |-> at]

\* the loop a server is a candidate of: the loop of the call of lookup
\* numbered at (kind "root"), or a loop over the additional ("glue") or the
\* authority ("ns") section of the response to query number at of qlog
Pos(kind, at) == [kind |-> kind, at |-> at]

\* a frame of lookup_iter; pos is the loop that made the call, qi the number
\* in qlog of the query the call sends
IterFrame(target_name, qtype, server, found, pos) ==
    [fn |-> "lookup_iter", pc |-> "query", target_name |-> target_name,
     qtype |-> qtype, server |-> server, found |-> found,
     response |-> EmptyMessage, sect |-> <<>>, i |-> 1, j |-> 1,
     pos |-> pos, qi |-> Len(qlog) + 1]

NoEnv == UNCHANGED <<net, args>>

----------------------------------------------------------------------------
(* main                                                                     *)

\* a mutant of CacheHit: a map whose lists are all empty does not count
CacheHitNonEmpty(name) ==
    /\ name \in DOMAIN dict_obj
    /\ \E key \in DOMAIN dict_obj[name] : dict_obj[name][key] # <<>>

\* dict_obj.get(a_domain_name) followed by "if cache:"
CacheHit(name) == name \in DOMAIN dict_obj /\ DOMAIN dict_obj[name] # {}

\* a mutant of CacheAdd: nothing is stored
CacheDrop(d, key, value) == d

\* a mutant of CacheAdd: the new entry replaces the cache
CacheOnly(d, key, value) == (key :> value)

\* my_dictionary.add
CacheAdd(d, key, value) == (key :> value) @@ d

Printed(results) == [map |-> results, nq |-> nq]

\* the loop of main reads the next name of the command line, finds it in
\* the cache and prints the cached map
MainCached ==
    /\ At("main", "loop")
    /\ Len(args) < MaxNames
    /\ \E name \in Texts :
        /\ CacheHit(name)
        /\ args' = Append(args, name)
        /\ out' = Append(out, Printed(dict_obj[name]))
    /\ argi' = argi + 1
    /\ UNCHANGED <<net, dict_obj, stack, ret, status, exc, qlog, nq>>

\* the loop of main reads the next name of the command line and calls
\* collect_results for it, the cache not holding it
MainCollect ==
    /\ At("main", "loop")
    /\ Len(args) < MaxNames
    /\ \E name \in Texts :
        /\ ~CacheHit(name)
        /\ args' = Append(args, name)
        /\ Call(MainFrame("print"), CollectFrame(name))
    /\ UNCHANGED <<net, argi, dict_obj, ret, status, exc, out, qlog, nq>>

\* print_results(collect_results(...)) once collect_results has returned
MainPrint ==
    /\ At("main", "print")
    /\ out' = Append(out, Printed(ret))
    /\ argi' = argi + 1
    /\ Goto(MainFrame("loop"))
    /\ NoEnv
    /\ UNCHANGED <<dict_obj, ret, status, exc, qlog, nq>>

\* the command line (of one name at least) is read to its end: main returns
MainDone ==
    /\ At("main", "loop")
    /\ argi > 1
    /\ status' = "done"
    /\ NoEnv
    /\ UNCHANGED <<argi, dict_obj, stack, ret, exc, out, qlog, nq>>

----------------------------------------------------------------------------
(* collect_results                                                          *)

\* the four lookups of collect_results, in the order it makes them
QTYPES == << CNAME, A, AAAA, MX >>

\* all rdatas of the rrsets of a section, in order, each with its owner name
RECURSIVE Flatten(_)
Flatten(section) ==
    IF section = <<>> THEN <<>>
    ELSE [j \in 1..Len(section[1].items) |->
              [name |-> section[1].name, rd |-> section[1].items[j]]]
         \o Flatten(Tail(section))

RECURSIVE SelectType(_, _)
SelectType(flat, t) ==
    IF flat = <<>> THEN <<>>
    ELSE (IF flat[1].rd.rdtype = t THEN << flat[1] >> ELSE <<>>)
         \o SelectType(Tail(flat), t)

\* the CNAME list: one entry per rdata of the answer, whatever its type
CnameRecords(response, name) ==
    LET flat == Flatten(response.answer)
    IN [x \in 1..Len(flat) |-> [name |-> flat[x].rd, alias |-> name]]

\* the A and AAAA lists: the rdatas of type t, with the owner of their rrset
AddressRecords(response, t) ==
    LET flat == SelectType(Flatten(response.answer), t)
    IN [x \in 1..Len(flat) |-> [name |-> flat[x].name, address |-> flat[x].rd.v]]

MxRecords(response) ==
    LET flat == SelectType(Flatten(response.answer), MX)
    IN [x \in 1..Len(flat) |->
            [name |-> flat[x].name, preference |-> flat[x].rd.pref,
             exchange |-> ToText(flat[x].rd.v)]]

FullResponse(f) ==
    [CNAME |-> f.cnames, A |-> f.arecords, AAAA |-> f.aaaarecords,
     MX |-> f.mxrecords]

\* a mutant of NewList: the lists of the last call for the name are kept
\* and appended to
KeptList(name, key) ==
    IF name \in DOMAIN dict_obj THEN dict_obj[name][key] ELSE <<>>

\* cnames = [], arecords = [], aaaarecords = [], mxrecords = []
NewList(name, key) == <<>>

\* collect_results calls lookup for its next record type
CollectLookup ==
    /\ At("collect_results", "call")
    /\ Call([Top EXCEPT !.pc = "parse"],
            LookupFrame(Top.target_name, QTYPES[Top.k], 0))
    /\ qlog' = <<>>
    /\ NoEnv
    /\ UNCHANGED <<argi, dict_obj, ret, status, exc, out, nq>>

\* the lookup has returned: its answer section is parsed into the list of
\* its record type
CollectParse ==
    /\ At("collect_results", "parse")
    /\ LET f == Top
           g == CASE f.k = 1 ->
                         [f EXCEPT !.cnames = NewList(f.name, "CNAME")
                                               \o CnameRecords(ret, f.name)]
                  [] f.k = 2 ->
                         [f EXCEPT !.arecords = NewList(f.name, "A")
                                                 \o AddressRecords(ret, A)]
                  [] f.k = 3 ->
                         [f EXCEPT !.aaaarecords = NewList(f.name, "AAAA")
                                                   \o AddressRecords(ret, AAAA)]
                  [] OTHER ->
                         [f EXCEPT !.mxrecords = NewList(f.name, "MX")
                                                 \o MxRecords(ret)]
       IN IF f.k < Len(QTYPES)
          THEN Goto([g EXCEPT !.k = f.k + 1, !.pc = "call"])
          ELSE Goto([g EXCEPT !.pc = "store"])
    /\ NoEnv
    /\ UNCHANGED <<argi, dict_obj, ret, status, exc, out, qlog, nq>>

\* the Record Map is assembled, added to the cache and returned
CollectStore ==
    /\ At("collect_results", "store")
    /\ dict_obj' = CacheAdd(dict_obj, Top.name, FullResponse(Top))
    /\ Return(FullResponse(Top))
    /\ NoEnv
    /\ UNCHANGED <<argi, status, exc, out, qlog, nq>>

----------------------------------------------------------------------------
(* lookup                                                                   *)

\* the loop over ROOT_SERVERS: the walk against the next root server starts,
\* with the found flag lookup holds
LookupRoot ==
    /\ At("lookup", "loop")
    /\ Top.i <= NumRoots
    /\ Call([Top EXCEPT !.pc = "walked"],
            IterFrame(Top.target_name, Top.qtype, ROOT_SERVERS[Top.i],
                      Top.found, Pos("root", Top.at)))
    /\ NoEnv
    /\ UNCHANGED <<argi, dict_obj, ret, status, exc, out, qlog, nq>>

\* the loop is over (every root server tried, or left by break): the last
\* response is returned
LookupExhausted ==
    /\ At("lookup", "loop")
    /\ Top.i > NumRoots
    /\ Return(Top.response)
    /\ NoEnv
    /\ UNCHANGED <<argi, dict_obj, status, exc, out, qlog, nq>>

\* a mutant of MustRestart: a CNAME answer is never followed
NeverRestart(response, qtype) == FALSE

\* a mutant of MustRestart: a depth guard, an alias of an alias is not
\* followed
GuardedRestart(response, qtype) ==
    response.answer[1].rdtype = CNAME /\ qtype # CNAME /\ Len(stack) < 3

\* top_resp == cname and qtype != cname
MustRestart(response, qtype) ==
    response.answer[1].rdtype = CNAME /\ qtype # CNAME

\* a mutant of NextRootIndex: the loop skips every other root server
SkipRoot(i) == i + 2

\* the step of "for server in ROOT_SERVERS"
NextRootIndex(i) == i + 1

\* the walk returned an answer whose first rrset is a CNAME, and the query
\* is not for CNAME: lookup starts again for the target of the alias
LookupAlias ==
    /\ At("lookup", "walked")
    /\ ret.response.answer # <<>>
    /\ MustRestart(ret.response, Top.qtype)
    /\ Len(stack) < RecursionLimit
    /\ LET first_resp == ToText(ret.response.answer[1].items[1].v)
           target_name == FromText(first_resp)
       IN Call([Top EXCEPT !.pc = "aliased", !.found = FALSE,
                           !.response = ret.response,
                           !.target_name = target_name],
               LookupFrame(target_name, Top.qtype, Len(qlog)))
    /\ NoEnv
    /\ UNCHANGED <<argi, dict_obj, ret, status, exc, out, qlog, nq>>

\* the same, with the call stack as deep as the interpreter lets it grow:
\* the call of lookup raises RecursionError, which no handler catches
LookupOverflow ==
    /\ At("lookup", "walked")
    /\ ret.response.answer # <<>>
    /\ MustRestart(ret.response, Top.qtype)
    /\ Len(stack) >= RecursionLimit
    /\ Raise("RecursionError")
    /\ NoEnv
    /\ UNCHANGED <<argi, dict_obj, stack, ret, out, qlog, nq>>

\* the lookup of the alias target returned: its response is returned
LookupAliasReturn ==
    /\ At("lookup", "aliased")
    /\ Return(ret)
    /\ NoEnv
    /\ UNCHANGED <<argi, dict_obj, status, exc, out, qlog, nq>>

\* the walk returned an answer that is returned as it is
LookupAnswer ==
    /\ At("lookup", "walked")
    /\ ret.response.answer # <<>>
    /\ ~MustRestart(ret.response, Top.qtype)
    /\ Return(ret.response)
    /\ NoEnv
    /\ UNCHANGED <<argi, dict_obj, status, exc, out, qlog, nq>>

\* a mutant of SoaFirst: an SOA never ends the loop over the root servers
NoSoaStop(response) == FALSE

\* response.authority and response.authority[0].rdtype == dns.rdatatype.SOA
SoaFirst(response) ==
    response.authority # <<>> /\ response.authority[1].rdtype = SOA

\* no answer, and the authority section starts with an SOA: break
LookupSoa ==
    /\ At("lookup", "walked")
    /\ ret.response.answer = <<>>
    /\ SoaFirst(ret.response)
    /\ Return(ret.response)
    /\ NoEnv
    /\ UNCHANGED <<argi, dict_obj, status, exc, out, qlog, nq>>

\* neither: the loop goes on to the next root server, keeping response and
\* the found flag the walk returned
LookupNext ==
    /\ At("lookup", "walked")
    /\ ret.response.answer = <<>>
    /\ ~SoaFirst(ret.response)
    /\ Goto([Top EXCEPT !.pc = "loop", !.i = NextRootIndex(Top.i),
                        !.response = ret.response, !.found = ret.found])
    /\ NoEnv
    /\ UNCHANGED <<argi, dict_obj, ret, status, exc, out, qlog, nq>>

----------------------------------------------------------------------------
(* lookup_iter                                                              *)

\* the query of the running lookup_iter meets the network n, and this is
\* what dns.query.udp gives it
Meets(n) == /\ n \in Narrow(net, Top.server, Top.target_name, Top.qtype)
            /\ net' = n
Outcome(n) == Query(n, Top.server, Top.target_name, Top.qtype)

\* the query is sent and gets got: "fail" (an exception), "rcode" (a
\* response whose code is not NOERROR), "answer", "referral" or "nothing"
Sent(got) ==
    /\ qlog' = Append(qlog, [server |-> Top.server, name |-> Top.target_name,
                             qtype |-> Top.qtype, found |-> Top.found,
                             pos |-> Top.pos, got |-> got])
    /\ nq' = nq + 1

\* what the handlers of Timeout and DNSException return
Failed == [response |-> EmptyMessage, found |-> FALSE]

\* no response within 3 seconds, the DNSException raised is a Timeout:
\* except Timeout
IterTimeout ==
    /\ At("lookup_iter", "query")
    /\ \E n \in Narrow(net, Top.server, Top.target_name, Top.qtype) :
        /\ Meets(n)
        /\ Outcome(n).kind = "DNSException"
    /\ Sent("fail")
    /\ Return(Failed)
    /\ UNCHANGED <<args, argi, dict_obj, status, exc, out>>

\* the response cannot be parsed, the DNSException raised is no Timeout:
\* except DNSException
IterMalformed ==
    /\ At("lookup_iter", "query")
    /\ \E n \in Narrow(net, Top.server, Top.target_name, Top.qtype) :
        /\ Meets(n)
        /\ Outcome(n).kind = "DNSException"
    /\ Sent("fail")
    /\ Return(Failed)
    /\ UNCHANGED <<args, argi, dict_obj, status, exc, out>>

\* the response code is not NOERROR: response becomes the number
\* dns.rcode.NXDOMAIN, and reading its answer attribute raises AttributeError,
\* which neither handler catches
IterRcode ==
    /\ At("lookup_iter", "query")
    /\ \E n \in Narrow(net, Top.server, Top.target_name, Top.qtype) :
        /\ Meets(n)
        /\ Outcome(n).kind = "response"
        /\ Outcome(n).rcode # "NOERROR"
    /\ Sent("rcode")
    /\ Raise("AttributeError")
    /\ UNCHANGED <<args, argi, dict_obj, stack, ret, out>>

\* the response holds an answer: found, returned at once
IterAnswer ==
    /\ At("lookup_iter", "query")
    /\ \E n \in Narrow(net, Top.server, Top.target_name, Top.qtype) :
        /\ Meets(n)
        /\ Outcome(n).kind = "response"
        /\ Outcome(n).rcode = "NOERROR"
        /\ Outcome(n).msg.answer # <<>>
        /\ Return([response |-> Outcome(n).msg, found |-> TRUE])
    /\ Sent("answer")
    /\ UNCHANGED <<args, argi, dict_obj, status, exc, out>>

\* no answer, an additional section: the loop over it begins
IterAdditional ==
    /\ At("lookup_iter", "query")
    /\ \E n \in Narrow(net, Top.server, Top.target_name, Top.qtype) :
        /\ Meets(n)
        /\ Outcome(n).kind = "response"
        /\ Outcome(n).rcode = "NOERROR"
        /\ Outcome(n).msg.answer = <<>>
        /\ Outcome(n).msg.additional # <<>>
        /\ Goto([Top EXCEPT !.pc = "glue", !.response = Outcome(n).msg,
                            !.sect = Outcome(n).msg.additional,
                            !.i = 1, !.j = 1])
    /\ Sent("referral")
    /\ UNCHANGED <<args, argi, dict_obj, ret, status, exc, out>>

\* no answer, no additional section, an authority section, and found is not
\* set: the loop over the authority section begins
IterAuthority ==
    /\ At("lookup_iter", "query")
    /\ \E n \in Narrow(net, Top.server, Top.target_name, Top.qtype) :
        /\ Meets(n)
        /\ Outcome(n).kind = "response"
        /\ Outcome(n).rcode = "NOERROR"
        /\ Outcome(n).msg.answer = <<>>
        /\ Outcome(n).msg.additional = <<>>
        /\ Outcome(n).msg.authority # <<>> /\ ~Top.found
        /\ Goto([Top EXCEPT !.pc = "auth", !.response = Outcome(n).msg,
                            !.sect = Outcome(n).msg.authority,
                            !.i = 1, !.j = 1])
    /\ Sent("referral")
    /\ UNCHANGED <<args, argi, dict_obj, ret, status, exc, out>>

\* none of the branches: the response is returned with found as it came in
IterNothing ==
    /\ At("lookup_iter", "query")
    /\ \E n \in Narrow(net, Top.server, Top.target_name, Top.qtype) :
        /\ Meets(n)
        /\ Outcome(n).kind = "response"
        /\ Outcome(n).rcode = "NOERROR"
        /\ Outcome(n).msg.answer = <<>>
        /\ Outcome(n).msg.additional = <<>>
        /\ ~(Outcome(n).msg.authority # <<>> /\ ~Top.found)
        /\ Return([response |-> Outcome(n).msg, found |-> Top.found])
    /\ Sent("nothing")
    /\ UNCHANGED <<args, argi, dict_obj, status, exc, out>>

\* where the two nested for loops of a section stand
InSection == Top.i <= Len(Top.sect)
InRRset == InSection /\ Top.j <= Len(Top.sect[Top.i].items)
Item == Top.sect[Top.i].items[Top.j]

\* the loops over a section are over (exhausted, or left by break)
IterReturn ==
    /\ status = "run" /\ Top.fn = "lookup_iter" /\ Top.pc \in {"glue", "auth"}
    /\ ~InSection
    /\ Return([response |-> Top.response, found |-> Top.found])
    /\ NoEnv
    /\ UNCHANGED <<argi, dict_obj, status, exc, out, qlog, nq>>

\* the inner loop over an rrset is exhausted: "if found: break" of the outer
IterNextRRset ==
    /\ status = "run" /\ Top.fn = "lookup_iter" /\ Top.pc \in {"glue", "auth"}
    /\ InSection /\ ~InRRset
    /\ Goto([Top EXCEPT !.i = IF Top.found THEN Len(Top.sect) + 1 ELSE Top.i + 1,
                        !.j = 1])
    /\ NoEnv
    /\ UNCHANGED <<argi, dict_obj, ret, status, exc, out, qlog, nq>>

\* a mutant of IsGlue: the AAAA records are followed as well
AnyAddress(rd) == rd.rdtype \in {A, AAAA}

\* addx.rdtype == dns.rdatatype.A
IsGlue(rd) == rd.rdtype = A

\* an A record of the additional section: the walk goes on against its address
IterGlue ==
    /\ At("lookup_iter", "glue")
    /\ InRRset /\ IsGlue(Item)
    /\ Call([Top EXCEPT !.pc = "glue_walked"],
            IterFrame(Top.target_name, Top.qtype, Item.v, Top.found,
                      Pos("glue", Top.qi)))
    /\ NoEnv
    /\ UNCHANGED <<argi, dict_obj, ret, status, exc, out, qlog, nq>>

\* the "if found: break" pair that follows every record of the additional
\* section
GlueStep(f) ==
    IF f.found THEN [f EXCEPT !.pc = "glue", !.i = Len(f.sect) + 1]
    ELSE [f EXCEPT !.pc = "glue", !.j = f.j + 1]

\* any other record of the additional section is passed over
IterGlueSkip ==
    /\ At("lookup_iter", "glue")
    /\ InRRset /\ ~IsGlue(Item)
    /\ Goto(GlueStep(Top))
    /\ NoEnv
    /\ UNCHANGED <<argi, dict_obj, ret, status, exc, out, qlog, nq>>

\* the walk against a glue address returned: response, found = ...
IterGlueWalked ==
    /\ At("lookup_iter", "glue_walked")
    /\ Goto(GlueStep([Top EXCEPT !.response = ret.response, !.found = ret.found]))
    /\ NoEnv
    /\ UNCHANGED <<argi, dict_obj, ret, status, exc, out, qlog, nq>>

\* a mutant of NsLookupType: the nameserver is looked up with the type of
\* the query
SameType(qtype) == qtype

\* the type of the sub-lookup for a nameserver name: dns.rdatatype.A
NsLookupType(qtype) == A

\* an NS record of the authority section: lookup(str(authx), A)
IterNs ==
    /\ At("lookup_iter", "auth")
    /\ InRRset /\ Item.rdtype = NS
    /\ Call([Top EXCEPT !.pc = "ns_resolved"],
            LookupFrame(FromText(ToText(Item.v)), NsLookupType(Top.qtype),
                        Len(qlog)))
    /\ NoEnv
    /\ UNCHANGED <<argi, dict_obj, ret, status, exc, out, qlog, nq>>

\* ns_response.answer[0][0] of a response without answer: IndexError, which
\* no handler catches
IterNsIndexError ==
    /\ At("lookup_iter", "ns_resolved")
    /\ ret.answer = <<>>
    /\ Raise("IndexError")
    /\ NoEnv
    /\ UNCHANGED <<argi, dict_obj, stack, ret, out, qlog, nq>>

\* the walk goes on against the first address of the sub-lookup's answer
IterNsWalk ==
    /\ At("lookup_iter", "ns_resolved")
    /\ ret.answer # <<>>
    /\ LET ns_addr == ret.answer[1].items[1].v
       IN Call([Top EXCEPT !.pc = "ns_walked"],
               IterFrame(Top.target_name, Top.qtype, ns_addr, Top.found,
                         Pos("ns", Top.qi)))
    /\ NoEnv
    /\ UNCHANGED <<argi, dict_obj, ret, status, exc, out, qlog, nq>>

\* the walk against the nameserver returned: response, found = ...; the
\* inner loop goes on to the next record of the rrset, found or not
IterNsWalked ==
    /\ At("lookup_iter", "ns_walked")
    /\ Goto([Top EXCEPT !.pc = "auth", !.response = ret.response,
                        !.found = ret.found, !.j = Top.j + 1])
    /\ NoEnv
    /\ UNCHANGED <<argi, dict_obj, ret, status, exc, out, qlog, nq>>

\* an SOA record of the authority section: found = True, and both loops are
\* left by break
IterSoa ==
    /\ At("lookup_iter", "auth")
    /\ InRRset /\ Item.rdtype = SOA
    /\ Goto([Top EXCEPT !.found = TRUE, !.i = Len(Top.sect) + 1])
    /\ NoEnv
    /\ UNCHANGED <<argi, dict_obj, ret, status, exc, out, qlog, nq>>

\* a record of the authority section that is neither NS nor SOA
IterAuthSkip ==
    /\ At("lookup_iter", "auth")
    /\ InRRset /\ Item.rdtype \notin {NS, SOA}
    /\ Goto([Top EXCEPT !.j = Top.j + 1])
    /\ NoEnv
    /\ UNCHANGED <<argi, dict_obj, ret, status, exc, out, qlog, nq>>

----------------------------------------------------------------------------
(* The process.                                                             *)

Start(frame) ==
    /\ net = AnyNetwork
    /\ args = <<>>
    /\ argi = 1
    /\ dict_obj = <<>>
    /\ stack = << frame >>
    /\ ret = EmptyMessage
    /\ status = "run"
    /\ exc = ""
    /\ out = <<>>
    /\ qlog = <<>>
    /\ nq = 0

Init == Start(MainFrame("loop"))

Main == MainCached \/ MainCollect \/ MainPrint \/ MainDone
Collect == CollectLookup \/ CollectParse \/ CollectStore
Lookup ==
    \/ LookupRoot \/ LookupExhausted \/ LookupAlias \/ LookupAliasReturn
    \/ LookupAnswer \/ LookupSoa \/ LookupNext
LookupIter ==
    \/ IterTimeout \/ IterMalformed \/ IterRcode \/ IterAnswer
    \/ IterAdditional \/ IterAuthority \/ IterNothing
    \/ IterReturn \/ IterNextRRset
    \/ IterGlue \/ IterGlueSkip \/ IterGlueWalked
    \/ IterNs \/ IterNsIndexError \/ IterNsWalk \/ IterNsWalked
    \/ IterSoa \/ IterAuthSkip

Next == Main \/ Collect \/ Lookup \/ LookupIter

Spec == Init /\ [][Next]_vars

----------------------------------------------------------------------------
(* The Result Collector called directly: collect_results(name, cache) is   *)
(* called Repeats times for one name, the cache being passed but never     *)
(* asked, as the idempotence property of the specification has it.         *)

TestFrame(pc) == [fn |-> "test", pc |-> pc]

TestFirst ==
    /\ At("test", "call")
    /\ args = <<>>
    /\ \E name \in Texts :
        /\ args' = << name >>
        /\ Call(TestFrame("keep"), CollectFrame(name))
    /\ UNCHANGED <<net, argi, dict_obj, ret, status, exc, out, qlog, nq>>

TestAgain ==
    /\ At("test", "call")
    /\ args # <<>>
    /\ Len(out) < Repeats
    /\ Call(TestFrame("keep"), CollectFrame(args[1]))
    /\ NoEnv
    /\ UNCHANGED <<argi, dict_obj, ret, status, exc, out, qlog, nq>>

TestKeep ==
    /\ At("test", "keep")
    /\ out' = Append(out, Printed(ret))
    /\ Goto(TestFrame("call"))
    /\ NoEnv
    /\ UNCHANGED <<argi, dict_obj, ret, status, exc, qlog, nq>>

TestDone ==
    /\ At("test", "call")
    /\ Len(out) = Repeats
    /\ status' = "done"
    /\ NoEnv
    /\ UNCHANGED <<argi, dict_obj, stack, ret, exc, out, qlog, nq>>

Test == TestFirst \/ TestAgain \/ TestKeep \/ TestDone

NextTwice == Test \/ Collect \/ Lookup \/ LookupIter

SpecTwice == Start(TestFrame("call")) /\ [][NextTwice]_vars

----------------------------------------------------------------------------
(* lookup called directly, once, for a name and a query type; the names    *)
(* include one of two that are aliases of each other.  Every step that can *)
(* be taken is taken in the end: the interpreter does not stop by itself.  *)

LookupTexts == Texts \cup { [n |-> LOOPA, dot |-> TRUE] }

DirectLookup ==
    /\ At("test", "ask")
    /\ \E name \in LookupTexts, k \in DOMAIN QTYPES :
        /\ args' = << name >>
        /\ Call(TestFrame("got"), LookupFrame(FromText(name), QTYPES[k], 0))
    /\ UNCHANGED <<net, argi, dict_obj, ret, status, exc, out, qlog, nq>>

DirectDone ==
    /\ At("test", "got")
    /\ status' = "done"
    /\ NoEnv
    /\ UNCHANGED <<argi, dict_obj, stack, ret, exc, out, qlog, nq>>

NextLookup ==
    \/ DirectLookup \/ DirectDone
    \/ Lookup \/ LookupOverflow \/ LookupIter

SpecLookup ==
    Start(TestFrame("ask")) /\ [][NextLookup]_vars /\ WF_vars(NextLookup)

----------------------------------------------------------------------------
(* What the claims speak of.                                                *)

\* a call of lookup has just returned: to collect_results, to the loop over
\* the authority section, or to the lookup that followed an alias
LookupReturned ==
    status = "run" /\ Top.pc \in {"parse", "ns_resolved", "aliased"}

\* the name and the type that call was made for
CalledName == IF Top.pc = "ns_resolved" THEN Item.v ELSE Top.target_name
CalledType ==
    CASE Top.pc = "parse" -> QTYPES[Top.k]
      [] Top.pc = "ns_resolved" -> A
      [] OTHER -> Top.qtype

\* a call of lookup_iter has just returned
WalkReturned ==
    status = "run" /\ Top.pc \in {"walked", "glue_walked", "ns_walked"}

\* no query of the run has failed
NoFailure == Down(net) = {} /\ 0 \in net.rootsDown

\* every root server fails without a response, so that every query does
EveryRootSilent == net.rootsDown = {NumRoots} /\ net.failMode = {"silent"}

\* the A rrset that the servers of its zone hold for a name
HeldA(name) ==
    IF name \in NsNames THEN NsZoneData(name, A).answer[1]
    ELSE RRset(WWW, A, << Rd(A, WWWADDR) >>)

Terminal(response) ==
    \/ response.answer # <<>>
    \/ response.authority # <<>> /\ response.authority[1].rdtype = SOA

EmptyMap == [CNAME |-> <<>>, A |-> <<>>, AAAA |-> <<>>, MX |-> <<>>]

\* the name main or the direct caller is handling
Handling(name) == args # <<>> /\ args[Len(args)].n = name

----------------------------------------------------------------------------
(* C1: for every name with an A record reachable from the root servers by   *)
(* referrals that carry glue addresses or NS names that resolve, and with   *)
(* no query failing, lookup(name, A) returns a response whose first answer  *)
(* rrset is the A rrset the authoritative servers hold for the name.        *)
(* Violated: a referral whose additional section holds AAAA glue only is    *)
(* never followed by its NS names.                                          *)
C1_GoldenPath ==
    (LookupReturned /\ CalledType = A /\ CalledName \in NsNames \cup {WWW}
        /\ NoFailure)
    => (ret.answer # <<>> /\ ret.answer[1] = HeldA(CalledName))

(* C2: a walk that yields an answer whose first rrset is a CNAME to T, for  *)
(* a query type other than CNAME, makes lookup call lookup(T, qtype), which *)
(* begins at the first root server, and return what that call returns; for  *)
(* the query type CNAME the CNAME response itself is returned.  And when    *)
(* collect_results has got the CNAME of an aliased name, its A list holds   *)
(* the A records of T and its CNAME list {name: T, alias: queried name}.    *)
C2_Restart ==
    /\ (At("lookup", "walked") /\ ret.response.answer # <<>>
          /\ ret.response.answer[1].rdtype = CNAME /\ Top.qtype # CNAME)
       => /\ Len(stack') = Len(stack) + 1
          /\ stack'[Len(stack)].pc = "aliased"
          /\ stack'[Len(stack')] =
                 [fn |-> "lookup", pc |-> "loop",
                  target_name |-> ret.response.answer[1].items[1].v,
                  qtype |-> Top.qtype, found |-> FALSE, i |-> 1,
                  response |-> EmptyMessage, at |-> Len(qlog)]
    /\ At("lookup", "aliased") => (stack' = Rest /\ ret' = ret)
    /\ (At("lookup", "walked") /\ ret.response.answer # <<>>
          /\ Top.qtype = CNAME)
       => (stack' = Rest /\ ret' = ret.response)

C2_AliasMap ==
    (At("collect_results", "store") /\ Top.target_name = ALIAS
        /\ Top.cnames # <<>>)
    => /\ Top.cnames = << [name |-> Rd(CNAME, WWW), alias |-> Top.name] >>
       /\ Top.arecords = << [name |-> WWW, address |-> WWWADDR] >>

C2_Alias == [][C2_Restart]_vars /\ []C2_AliasMap

C2_Witness ==
    /\ At("collect_results", "store") /\ Top.target_name = ALIAS
    /\ Top.cnames # <<>> /\ Top.arecords # <<>>

(* C3: if the candidate tried first in a loop (over the root servers, the   *)
(* glue addresses or the NS records of a referral) gives no response, and a *)
(* later candidate of the same loop answers the query, the lookup that      *)
(* collect_results called returns an answer.                                *)
(* Violated: the loop over the NS records of an rrset goes on after the     *)
(* answer was found, and a later nameserver that gives no response replaces *)
(* the answer by an empty response with found = False.                      *)
FirstOfLoop(i) == \A k \in 1..(i - 1) : qlog[k].pos # qlog[i].pos

C3_TimeoutResilience ==
    At("collect_results", "parse")
    => \A i, j \in DOMAIN qlog :
          (/\ i < j /\ qlog[i].pos = qlog[j].pos /\ FirstOfLoop(i)
           /\ qlog[i].got = "fail" /\ qlog[j].got = "answer"
           /\ qlog[j].name = CalledName /\ qlog[j].qtype = CalledType)
          => ret.answer # <<>>

(* C4: for a name whose zone answers with an empty answer section and an    *)
(* SOA in the authority section, the status being NOERROR or NXDOMAIN,      *)
(* collect_results returns four empty lists and no error escapes.           *)
(* Violated: the NXDOMAIN response ends the process with AttributeError.    *)
C4_Negative ==
    (Handling(NXNAME) /\ NoFailure /\ net.negShape \subseteq {"soa", "nxdomain"})
    => /\ status # "crash"
       /\ At("collect_results", "store") => FullResponse(Top) = EmptyMap

(* C5: when the sub-lookup for the name of an NS record returns a response  *)
(* without answer, lookup_iter goes on to the next authority record and     *)
(* the process goes on.                                                     *)
(* Violated: ns_response.answer[0][0] raises IndexError.                    *)
C5_NsDeadEnd ==
    (Top.fn = "lookup_iter" /\ Top.pc = "ns_resolved" /\ ret.answer = <<>>)
    => status = "run"

(* C6: a response whose code is not NOERROR is recovered from as a timeout  *)
(* is: lookup_iter returns an empty response with found = False.            *)
(* Violated: AttributeError ends the process.                               *)
C6_RcodeRecovered ==
    (qlog # <<>> /\ qlog[Len(qlog)].got = "rcode")
    => (status = "run" /\ ret = Failed)

(* C7: if every query fails without a response, a lookup queries each of    *)
(* the 13 root servers once, in the order of the list, and returns an empty *)
(* response; collect_results returns four empty lists, and no error ends    *)
(* the process.                                                             *)
C7_AllTimeouts ==
    /\ (At("collect_results", "parse")
          /\ \A i \in DOMAIN qlog : qlog[i].got = "fail")
       => /\ [i \in DOMAIN qlog |-> qlog[i].server] = ROOT_SERVERS
          /\ \A i \in DOMAIN qlog :
                qlog[i].name = CalledName /\ qlog[i].qtype = CalledType
          /\ ret = EmptyMessage
    /\ (At("collect_results", "store") /\ EveryRootSilent)
       => FullResponse(Top) = EmptyMap
    /\ EveryRootSilent => status # "crash"

C7_Witness ==
    /\ At("collect_results", "store") /\ EveryRootSilent
    /\ Len(qlog) = NumRoots

(* C8: once main has printed the Record Map of a name, a later occurrence   *)
(* of the same name on the command line sends no query and prints an equal  *)
(* Record Map.                                                              *)
C8_Cache ==
    \A i, j \in DOMAIN out :
        (i < j /\ args[i] = args[j])
        => (out[j].map = out[i].map /\ out[j].nq = out[j - 1].nq)

C8_Witness ==
    /\ Len(out) = 2 /\ args[1] = args[2]
    /\ out[2].map.A # <<>> /\ out[2].nq > 0

(* C9: two calls of collect_results for one name against the same network   *)
(* return equal Record Maps, and the second sends as many queries as the    *)
(* first.                                                                   *)
C9_Idempotent ==
    \A i, j \in DOMAIN out :
        i < j => (out[j].map = out[i].map /\ out[j].nq = j * out[1].nq)

C9_Witness ==
    /\ Len(out) = 2
    /\ out[1].map.CNAME # <<>> /\ out[1].map.A # <<>>
    /\ Down(net) # {}

(* C10: whenever lookup_iter returns found = True, its response has an      *)
(* answer or an authority section whose first record is an SOA.             *)
(* Violated: an authority section with an NS rrset before the SOA returns   *)
(* found = True with the response of the walk against the nameserver.       *)
C10_FoundIsTerminal ==
    (WalkReturned /\ ret.found) => Terminal(ret.response)

(* C11: every call of lookup_iter made by the loop over the root servers    *)
(* is made with found = False.                                              *)
(* Violated: line 107 assigns the found flag the walk returned to the       *)
(* variable that is passed to the walk against the next root server.        *)
C11_FoundStartsFalse ==
    \A i \in DOMAIN qlog : qlog[i].pos.kind = "root" => ~qlog[i].found

(* C12: once the walk against a candidate of a referral (a glue address or  *)
(* the server of an NS record) has returned found = True, no later          *)
(* candidate of the same invocation of lookup_iter is queried.  Stated for  *)
(* the candidates that answer the query themselves.                         *)
(* Violated: the loop over the NS records of an rrset has no break, and     *)
(* the nameservers after the one that answered are queried too.             *)
C12_FirstSuccessWins ==
    \A i, j \in DOMAIN qlog :
        (i < j /\ qlog[i].pos = qlog[j].pos /\ qlog[i].pos.kind \in {"glue", "ns"})
        => qlog[i].got # "answer"

(* C15: during one top-level lookup no (name, query type, server) triple is *)
(* queried twice.                                                           *)
(* Violated: nothing records the servers already asked; every root server   *)
(* refers to the same servers, which are asked again for every root server  *)
(* that leads to no terminal response.                                      *)
C15_NoRepeat ==
    \A i, j \in DOMAIN qlog :
        i < j => << qlog[i].name, qlog[i].qtype, qlog[i].server >>
                 # << qlog[j].name, qlog[j].qtype, qlog[j].server >>

(* C13: when the walk against a root server returns a response with an      *)
(* empty answer section and an authority section whose first record is an   *)
(* SOA, lookup returns that response and queries no further root server;    *)
(* when the response has neither an answer nor such an authority section,   *)
(* the loop moves on to the next root server, which is walked next.         *)
C13_Step ==
    /\ (At("lookup", "walked") /\ ret.response.answer = <<>>)
       => IF ret.response.authority # <<>>
             /\ ret.response.authority[1].rdtype = SOA
          THEN stack' = Rest /\ ret' = ret.response /\ qlog' = qlog
          ELSE /\ Len(stack') = Len(stack)
               /\ stack'[Len(stack)].fn = "lookup"
               /\ stack'[Len(stack)].pc = "loop"
               /\ stack'[Len(stack)].i = Top.i + 1
               /\ stack'[Len(stack)].target_name = Top.target_name
               /\ stack'[Len(stack)].qtype = Top.qtype
    /\ (At("lookup", "loop") /\ Top.i <= NumRoots)
       => /\ Len(stack') = Len(stack) + 1
          /\ stack'[Len(stack')].fn = "lookup_iter"
          /\ stack'[Len(stack')].pc = "query"
          /\ stack'[Len(stack')].server = ROOT_SERVERS[Top.i]
          /\ stack'[Len(stack')].target_name = Top.target_name
          /\ stack'[Len(stack')].qtype = Top.qtype

C13_SoaStopsRoots == [][C13_Step]_vars

\* the first root server gave no response, the walk against the second
\* ended at an SOA, and lookup returned it without a third root server
C13_Witness ==
    /\ At("collect_results", "parse")
    /\ ret.answer = <<>> /\ ret.authority # <<>> /\ ret.authority[1].rdtype = SOA
    /\ Len(qlog) > 1 /\ qlog[1].got = "fail"
    /\ Cardinality({i \in DOMAIN qlog : qlog[i].pos = Pos("root", 0)}) = 2

(* C14: the sub-lookup lookup_iter starts for an NS record of the authority *)
(* section is a new call of lookup for the name of the nameserver with the  *)
(* query type A, whatever the type of the query, beginning at the first     *)
(* root server with found = False; and when it returns an answer, the walk  *)
(* goes on against the first address of that answer, for the name and the   *)
(* type of the query.                                                       *)
C14_Step ==
    /\ (At("lookup_iter", "auth") /\ InRRset /\ Item.rdtype = NS)
       => /\ Len(stack') = Len(stack) + 1
          /\ stack'[Len(stack)] = [Top EXCEPT !.pc = "ns_resolved"]
          /\ stack'[Len(stack')] =
                 [fn |-> "lookup", pc |-> "loop", target_name |-> Item.v,
                  qtype |-> A, found |-> FALSE, i |-> 1,
                  response |-> EmptyMessage, at |-> Len(qlog)]
    /\ (At("lookup_iter", "ns_resolved") /\ ret.answer # <<>>)
       => /\ Len(stack') = Len(stack) + 1
          /\ stack'[Len(stack')].fn = "lookup_iter"
          /\ stack'[Len(stack')].pc = "query"
          /\ stack'[Len(stack')].server = ret.answer[1].items[1].v
          /\ stack'[Len(stack')].target_name = Top.target_name
          /\ stack'[Len(stack')].qtype = Top.qtype

\* every query of a sub-lookup for a nameserver name has the type A
C14_TypeA ==
    \A i \in DOMAIN qlog : qlog[i].name \in NsNames => qlog[i].qtype = A

C14_NsSubLookup == [][C14_Step]_vars /\ []C14_TypeA

\* a query of type AAAA has been answered by a nameserver whose address a
\* sub-lookup found
C14_Witness ==
    \E i \in DOMAIN qlog :
        /\ qlog[i].pos.kind = "ns" /\ qlog[i].qtype = AAAA
        /\ qlog[i].got = "answer" /\ qlog[i].server \in AuthServers

(* C16, as amended: a lookup for a name whose delegation chain is well      *)
(* formed ends (it returns, or an uncaught exception ends the process);     *)
(* nothing guards the depth of the restarts, so with two names that are     *)
(* aliases of each other a lookup with a query type other than CNAME whose  *)
(* walks reach the CNAME records never returns: the lookup restarted for a  *)
(* name of the cycle does not return to the one that restarted it, and the  *)
(* calls nest until the interpreter's recursion limit raises                *)
(* RecursionError, which ends the process.                                  *)
InCycle ==
    \E k \in DOMAIN stack :
        /\ stack[k].fn = "lookup" /\ stack[k].pc = "aliased"
        /\ stack[k].target_name \in CycleNames

C16_NoReturn == ~(At("lookup", "aliased") /\ Top.target_name \in CycleNames)

C16_Termination ==
    /\ []C16_NoReturn
    /\ [](InCycle => status # "done")
    /\ (args # <<>> /\ args[1].n \notin CycleNames) ~> (status # "run")
    /\ InCycle ~> (status = "crash" /\ exc = "RecursionError")

\* the restarts have nested as deep as the interpreter allows
C16_Witness ==
    /\ InCycle /\ status = "crash" /\ exc = "RecursionError"
    /\ Len(stack) = RecursionLimit

(* C16, as stated: with a CNAME cycle, a lookup with a query type other     *)
(* than CNAME never terminates.                                             *)
(* Violated: the process ends with RecursionError.                          *)
C16_NeverTerminates == InCycle => status = "run"

(* C17: the cache changes only in the step of collect_results that follows  *)
(* the return of its fourth lookup: that step adds the assembled Record Map *)
(* under the name asked and returns it; every other entry stays as it is,   *)
(* so no entry is ever removed; and a call of collect_results that an       *)
(* exception ends has written no entry.                                     *)
C17_Step ==
    dict_obj' # dict_obj
    => /\ At("collect_results", "store")
       /\ Top.k = Len(QTYPES)
       /\ DOMAIN dict_obj' = DOMAIN dict_obj \cup {Top.name}
       /\ dict_obj'[Top.name] = FullResponse(Top)
       /\ \A key \in DOMAIN dict_obj \ {Top.name} : dict_obj'[key] = dict_obj[key]
       /\ stack' = Rest /\ ret' = FullResponse(Top)

C17_Completed ==
    /\ (status = "run" /\ \E k \in DOMAIN stack :
            stack[k].fn = "collect_results" /\ stack[k].pc # "store")
       => args[Len(args)] \notin DOMAIN dict_obj
    /\ status = "crash" => args[Len(args)] \notin DOMAIN dict_obj

C17_CacheFrame == [][C17_Step]_vars /\ []C17_Completed

\* the first name was stored, the call for the second one did not complete
C17_Witness ==
    /\ status = "crash" /\ Len(args) = 2
    /\ DOMAIN dict_obj = {args[1]}

(* C18: the Record Map of every completed call of collect_results is in     *)
(* the cache, also a map of four empty lists; a later occurrence of the     *)
(* same name then prints that empty map and sends no query.                 *)
C18_EmptyCached ==
    /\ \A i \in DOMAIN out :
          args[i] \in DOMAIN dict_obj /\ dict_obj[args[i]] = out[i].map
    /\ \A i, j \in DOMAIN out :
          (i < j /\ args[i] = args[j] /\ out[i].map = EmptyMap)
          => (out[j].map = EmptyMap /\ out[j].nq = out[j - 1].nq)

\* a name that the servers hold records for was not resolved, queries
\* having been sent, and was asked again
C18_Witness ==
    /\ Len(out) = 2 /\ args[1] = args[2] /\ args[1].n = WWW
    /\ out[1].map = EmptyMap /\ out[1].nq > 0
    /\ out[2].nq = out[1].nq

(* C19: an invocation of lookup_iter whose response has no answer and a     *)
(* non-empty additional section enters the loop over the additional         *)
(* section, and from there it only passes over records, calls lookup_iter   *)
(* for the address of a record of type A, takes over the response and the   *)
(* found flag such a call returns, or returns the response and the flag it  *)
(* holds: it calls lookup for no NS name and sets found for no SOA, so that *)
(* it returns what the last glue address tried gave, or the referral with   *)
(* the flag it was called with when none was tried.                         *)
C19_Step ==
    /\ (At("lookup_iter", "query") /\ status' = "run"
          /\ Query(net', Top.server, Top.target_name, Top.qtype).kind = "response"
          /\ Query(net', Top.server, Top.target_name, Top.qtype).msg.answer = <<>>
          /\ Query(net', Top.server, Top.target_name, Top.qtype).msg.additional # <<>>)
       => /\ Len(stack') = Len(stack)
          /\ stack'[Len(stack)].pc = "glue"
          /\ stack'[Len(stack)].found = Top.found
          /\ stack'[Len(stack)].response =
                 Query(net', Top.server, Top.target_name, Top.qtype).msg
          /\ stack'[Len(stack)].sect = stack'[Len(stack)].response.additional
    /\ At("lookup_iter", "glue")
       => \/ stack' = Rest
             /\ ret' = [response |-> Top.response, found |-> Top.found]
          \/ /\ Len(stack') = Len(stack)
             /\ stack'[Len(stack)].pc = "glue"
             /\ stack'[Len(stack)].response = Top.response
             /\ stack'[Len(stack)].found = Top.found
             /\ stack'[Len(stack)].sect = Top.sect
             /\ qlog' = qlog
          \/ /\ Len(stack') = Len(stack) + 1
             /\ stack'[Len(stack)] = [Top EXCEPT !.pc = "glue_walked"]
             /\ stack'[Len(stack')].fn = "lookup_iter"
             /\ stack'[Len(stack')].pc = "query"
             /\ InRRset /\ Item.rdtype = A
             /\ stack'[Len(stack')].server = Item.v
             /\ stack'[Len(stack')].target_name = Top.target_name
             /\ stack'[Len(stack')].qtype = Top.qtype
    /\ At("lookup_iter", "glue_walked")
       => /\ Len(stack') = Len(stack)
          /\ stack'[Len(stack)].pc = "glue"
          /\ stack'[Len(stack)].response = ret.response
          /\ stack'[Len(stack)].found = ret.found
          /\ stack'[Len(stack)].sect = Top.sect

\* no query is sent from the loop over one section of a response after a
\* query was sent from the loop over the other
C19_OneSection ==
    Len(qlog') = Len(qlog) + 1
    => LET e == qlog'[Len(qlog')]
           other == IF e.pos.kind = "ns" THEN "glue" ELSE "ns"
       IN e.pos.kind \in {"glue", "ns"}
          => \A i \in DOMAIN qlog : qlog[i].pos # Pos(other, e.pos.at)

C19_AdditionalOnly == [][C19_Step /\ C19_OneSection]_vars

\* a referral with NS records and nothing but AAAA glue came back from the
\* walk as it was, no nameserver name resolved and no glue address tried
C19_Witness ==
    /\ WalkReturned /\ Top.pc = "glue_walked"
    /\ ret.response.answer = <<>> /\ ret.response.additional = GlueAAAA
    /\ ret.response.authority # <<>> /\ ~ret.found
    /\ qlog[Len(qlog)].server = T1

====
